---- MODULE Spec2Model ----
(***************************************************************************)
(* Layout model of the Piece / Row sprite composition library.             *)
(*                                                                         *)
(* f32 values are modelled as exact rationals extended with the IEEE-754   *)
(* special values +inf, -inf and NaN, so that a division by zero behaves   *)
(* as it does in the program (it yields inf or NaN, it does not trap).     *)
(* Rounding of f32 arithmetic is not modelled.                             *)
(***************************************************************************)
EXTENDS Integers, Sequences, FiniteSets, TLC

\* Bounds of the exploration.
MaxChildren == 2
MaxItems == 3

-----------------------------------------------------------------------------
(* f32 arithmetic *)

Abs(n) == IF n < 0 THEN -n ELSE n

RECURSIVE Gcd(_, _)
Gcd(a, b) == IF b = 0 THEN a ELSE Gcd(b, a % b)

\* The finite value n/d (d # 0), in lowest terms with a positive denominator.
Rat(n, d) ==
    LET g == Gcd(Abs(n), Abs(d))
        s == IF d < 0 THEN -1 ELSE 1
    IN  [k |-> "fin", n |-> (s * n) \div g, d |-> (s * d) \div g]

FromInt(n) == Rat(n, 1)

Inf(sign) == [k |-> "inf", n |-> sign, d |-> 0]

NaN == [k |-> "nan", n |-> 0, d |-> 0]

Zero == FromInt(0)

One == FromInt(1)

Two == FromInt(2)

Sign(a) == IF a.n < 0 THEN -1 ELSE IF a.n > 0 THEN 1 ELSE 0

IsFinite(a) == a.k = "fin"

FNeg(a) == [a EXCEPT !.n = -a.n]

FAdd(a, b) ==
    IF a.k = "nan" \/ b.k = "nan" THEN NaN
    ELSE IF a.k = "inf" /\ b.k = "inf" THEN (IF a.n = b.n THEN a ELSE NaN)
    ELSE IF a.k = "inf" THEN a
    ELSE IF b.k = "inf" THEN b
    ELSE Rat(a.n * b.d + b.n * a.d, a.d * b.d)

FSub(a, b) == FAdd(a, FNeg(b))

FMul(a, b) ==
    IF a.k = "nan" \/ b.k = "nan" THEN NaN
    ELSE IF a.k = "inf" \/ b.k = "inf"
         THEN (IF Sign(a) * Sign(b) = 0 THEN NaN ELSE Inf(Sign(a) * Sign(b)))
    ELSE Rat(a.n * b.n, a.d * b.d)

FDiv(a, b) ==
    IF a.k = "nan" \/ b.k = "nan" THEN NaN
    ELSE IF a.k = "inf" /\ b.k = "inf" THEN NaN
    ELSE IF a.k = "inf" THEN Inf(IF Sign(b) < 0 THEN -Sign(a) ELSE Sign(a))
    ELSE IF b.k = "inf" THEN Zero
    ELSE IF b.n = 0 THEN (IF a.n = 0 THEN NaN ELSE Inf(Sign(a)))
    ELSE Rat(a.n * b.d, a.d * b.n)

\* a < b; every comparison with NaN is false.
FLt(a, b) ==
    IF a.k = "nan" \/ b.k = "nan" THEN FALSE
    ELSE IF a.k = "inf" THEN a.n < 0 /\ ~(b.k = "inf" /\ b.n < 0)
    ELSE IF b.k = "inf" THEN b.n > 0
    ELSE a.n * b.d < b.n * a.d

FGt(a, b) == FLt(b, a)

FLe(a, b) == a = b \/ FLt(a, b)

vec2(x, y) == [x |-> x, y |-> y]

-----------------------------------------------------------------------------
(* The texture registry: id -> dimensions of the texture. *)

Registry ==
    1 :> [width |-> FromInt(50),  height |-> FromInt(40)] @@
    2 :> [width |-> FromInt(60),  height |-> FromInt(80)] @@
    3 :> [width |-> FromInt(70),  height |-> FromInt(60)] @@
    4 :> [width |-> FromInt(100), height |-> FromInt(100)] @@
    5 :> [width |-> FromInt(200), height |-> FromInt(30)]

\* A texture id that was never registered.
Unregistered == 9

VARIABLES
    assetsSet,  \* ASSETS: whether the OnceCell holds the Registry
    piece,      \* a Piece being built and measured on its own
    row,        \* the Row: items, raw_width, raw_height, spacing
    op,         \* the operation that ran last
    args,       \* its arguments (location, adjustment, viewport width)
    rendered,   \* the draw_texture_ex calls it issued, in order
    result,     \* the f32 it returned (width, height) or its final curr_x
    fatal       \* the process panicked

vars == <<assetsSet, piece, row, op, args, rendered, result, fatal>>

-----------------------------------------------------------------------------
(* Piece *)

Piece_new(texture) == [texture |-> texture, children |-> <<>>]

Piece_add_child(self, p, rel_parent, rel_self) ==
    [self EXCEPT !.children =
        Append(@, [piece |-> p, rel_parent |-> rel_parent, rel_self |-> rel_self])]

\* Piece::texture succeeds iff ASSETS is set and holds the id.
Resolves(self) == assetsSet /\ self.texture \in DOMAIN Registry

Piece_texture(self) == Registry[self.texture]

Panic == [ok |-> FALSE, val |-> NaN]

Ok(v) == [ok |-> TRUE, val |-> v]

RECURSIVE WidthLoop(_, _, _, _)
WidthLoop(self, i, left, right) ==
    IF i > Len(self.children) THEN Ok(FSub(right, left))
    ELSE LET child == self.children[i].piece
             rel_self == self.children[i].rel_self
         IN  IF ~Resolves(child) THEN Panic
             ELSE LET child_texture == Piece_texture(child)
                      child_x_offset == FMul(child_texture.width, rel_self.x)
                      left1 == IF FLt(child_x_offset, left) THEN child_x_offset ELSE left
                      curr_right == FAdd(child_x_offset, child_texture.width)
                      right1 == IF FGt(curr_right, right) THEN curr_right ELSE right
                  IN  WidthLoop(self, i + 1, left1, right1)

\* Mutant: the width of the texture alone, children ignored.
Piece_width_TextureOnly(self) ==
    IF ~Resolves(self) \/ \E i \in 1..Len(self.children) : ~Resolves(self.children[i].piece)
    THEN Panic
    ELSE Ok(Piece_texture(self).width)

Piece_width(self) ==
    IF ~Resolves(self) THEN Panic
    ELSE WidthLoop(self, 1, Zero, Piece_texture(self).width)

RECURSIVE HeightLoop(_, _, _, _)
HeightLoop(self, i, top, bottom) ==
    IF i > Len(self.children) THEN Ok(FSub(bottom, top))
    ELSE LET child == self.children[i].piece
             rel_self == self.children[i].rel_self
         IN  IF ~Resolves(child) THEN Panic
             ELSE LET child_texture == Piece_texture(child)
                      child_y_offset == FMul(child_texture.height, rel_self.y)
                      top1 == IF FLt(child_y_offset, top) THEN child_y_offset ELSE top
                      curr_bottom == FAdd(child_y_offset, child_texture.height)
                      bottom1 == IF FGt(curr_bottom, bottom) THEN curr_bottom ELSE bottom
                  IN  HeightLoop(self, i + 1, top1, bottom1)

Piece_height(self) ==
    IF ~Resolves(self) THEN Panic
    ELSE HeightLoop(self, 1, Zero, Piece_texture(self).height)

\* One draw_texture_ex call: the texture, its top-left corner and dest_size.
Render(texture, x, y, w, h) == [texture |-> texture, x |-> x, y |-> y, w |-> w, h |-> h]

RECURSIVE DrawLoop(_, _, _, _, _)
DrawLoop(self, i, location, adjustment, calls) ==
    IF i > Len(self.children) THEN [ok |-> TRUE, calls |-> calls]
    ELSE LET child == self.children[i].piece
             rel_parent == self.children[i].rel_parent
             rel_self == self.children[i].rel_self
             parent_width == FMul(Piece_texture(self).width, adjustment)
             parent_height == FMul(Piece_texture(self).height, adjustment)
         IN  IF ~Resolves(child) THEN [ok |-> FALSE, calls |-> calls]
             ELSE LET child_texture == Piece_texture(child)
                      x_offset == FAdd(FAdd(location.x, FMul(parent_width, rel_parent.x)),
                                       FMul(FMul(child_texture.width, adjustment), rel_self.x))
                      y_offset == FAdd(FAdd(location.y, FMul(parent_height, rel_parent.y)),
                                       FMul(FMul(child_texture.height, adjustment), rel_self.y))
                  IN  DrawLoop(self, i + 1, location, adjustment,
                               Append(calls, Render(child.texture, x_offset, y_offset,
                                                    FMul(child_texture.width, adjustment),
                                                    FMul(child_texture.height, adjustment))))

\* Mutant: the children are painted first and the parent over them.
Piece_draw_ChildrenFirst(self, location, adjustment) ==
    IF ~Resolves(self) THEN [ok |-> FALSE, calls |-> <<>>]
    ELSE LET texture == Piece_texture(self)
             r == DrawLoop(self, 1, location, adjustment, <<>>)
         IN  [ok |-> r.ok,
              calls |-> r.calls \o
                        <<Render(self.texture, location.x, location.y,
                                 FMul(texture.width, adjustment),
                                 FMul(texture.height, adjustment))>>]

\* Mutant: the parent is drawn at its texture size, dest_size left unscaled.
Piece_draw_Unscaled(self, location, adjustment) ==
    IF ~Resolves(self) THEN [ok |-> FALSE, calls |-> <<>>]
    ELSE LET texture == Piece_texture(self)
         IN  DrawLoop(self, 1, location, adjustment,
                      <<Render(self.texture, location.x, location.y,
                               texture.width, texture.height)>>)

\* Piece::draw: the calls issued, and whether it returned (ok) or panicked.
Piece_draw(self, location, adjustment) ==
    IF ~Resolves(self) THEN [ok |-> FALSE, calls |-> <<>>]
    ELSE LET texture == Piece_texture(self)
         IN  DrawLoop(self, 1, location, adjustment,
                      <<Render(self.texture, location.x, location.y,
                               FMul(texture.width, adjustment),
                               FMul(texture.height, adjustment))>>)

-----------------------------------------------------------------------------
(* Row *)

Row_new == [items |-> <<>>, raw_width |-> Zero, raw_height |-> Zero, spacing |-> Zero]

\* self.items.iter().map(|x| x.width()).sum()
RECURSIVE SumWidths(_, _, _)
SumWidths(items, i, acc) ==
    IF i > Len(items) THEN Ok(acc)
    ELSE LET w == Piece_width(items[i])
         IN  IF ~w.ok THEN Panic ELSE SumWidths(items, i + 1, FAdd(acc, w.val))

\* The max_height loop of Row::spacing.
RECURSIVE MaxHeightLoop(_, _, _)
MaxHeightLoop(items, i, max_height) ==
    IF i > Len(items) THEN Ok(max_height)
    ELSE LET h == Piece_height(items[i])
         IN  IF ~h.ok THEN Panic
             ELSE MaxHeightLoop(items, i + 1,
                                IF FGt(h.val, max_height) THEN h.val ELSE max_height)

\* Row::spacing: the Row it leaves, or a panic that leaves self as it was.
Row_spacing(self, spacing) ==
    LET items_width == SumWidths(self.items, 1, Zero)
        max_height == MaxHeightLoop(self.items, 1, Zero)
    IN  IF ~items_width.ok \/ ~max_height.ok THEN [ok |-> FALSE, row |-> self]
        ELSE [ok |-> TRUE,
              row |-> [items |-> self.items,
                       raw_width |-> FAdd(FMul(spacing, FromInt(Len(self.items) + 1)),
                                          items_width.val),
                       raw_height |-> FAdd(FMul(spacing, Two), max_height.val),
                       spacing |-> spacing]]

\* Mutant: raw_width grows by the item's width only, the gap after it is forgotten.
Row_add_NoSpacing(self, item) ==
    LET w == Piece_width(item)
        h == Piece_height(item)
    IN  IF ~w.ok \/ ~h.ok THEN [ok |-> FALSE, row |-> self]
        ELSE [ok |-> TRUE,
              row |-> [items |-> Append(self.items, item),
                       raw_width |-> FAdd(self.raw_width, w.val),
                       raw_height |-> IF FGt(FAdd(h.val, self.spacing), self.raw_height)
                                      THEN h.val ELSE self.raw_height,
                       spacing |-> self.spacing]]

\* Mutant: the item is pushed before it is measured, so a panic leaves it in the Row.
Row_add_PushFirst(self, item) ==
    LET w == Piece_width(item)
        h == Piece_height(item)
    IN  IF ~w.ok \/ ~h.ok
        THEN [ok |-> FALSE, row |-> [self EXCEPT !.items = Append(@, item)]]
        ELSE [ok |-> TRUE,
              row |-> [items |-> Append(self.items, item),
                       raw_width |-> FAdd(self.raw_width, FAdd(w.val, self.spacing)),
                       raw_height |-> IF FGt(FAdd(h.val, self.spacing), self.raw_height)
                                      THEN h.val ELSE self.raw_height,
                       spacing |-> self.spacing]]

\* Row::add: the Row it leaves, or a panic that leaves self as it was.
Row_add(self, item) ==
    LET w == Piece_width(item)
        h == Piece_height(item)
    IN  IF ~w.ok \/ ~h.ok THEN [ok |-> FALSE, row |-> self]
        ELSE [ok |-> TRUE,
              row |-> [items |-> Append(self.items, item),
                       raw_width |-> FAdd(self.raw_width, FAdd(w.val, self.spacing)),
                       raw_height |-> IF FGt(FAdd(h.val, self.spacing), self.raw_height)
                                      THEN h.val ELSE self.raw_height,
                       spacing |-> self.spacing]]

\* Row::height with screen_width() = viewport.
Row_height(self, viewport) ==
    LET adjustment == FDiv(viewport, self.raw_width)
    IN  FMul(self.raw_height, adjustment)

RECURSIVE RowDrawLoop(_, _, _, _, _, _)
\* One iteration of the loop of Row::draw: d is item.draw(..), w is item.width().
RowDrawItem(self, i, curr_x, curr_y, adjustment, calls, d, w) ==
    LET extension == Zero
    IN  IF ~d.ok \/ ~w.ok
        THEN [ok |-> FALSE, calls |-> calls \o d.calls, curr_x |-> curr_x]
        ELSE RowDrawLoop(self, i + 1,
                         FAdd(curr_x, FAdd(FAdd(FMul(w.val, adjustment),
                                                FMul(self.spacing, adjustment)),
                                           extension)),
                         curr_y, adjustment, calls \o d.calls)

RowDrawLoop(self, i, curr_x, curr_y, adjustment, calls) ==
    IF i > Len(self.items) THEN [ok |-> TRUE, calls |-> calls, curr_x |-> curr_x]
    ELSE RowDrawItem(self, i, curr_x, curr_y, adjustment, calls,
                     Piece_draw(self.items[i], vec2(curr_x, curr_y), adjustment),
                     Piece_width(self.items[i]))

\* Mutant: the cursor starts at location.x, the leading gap is forgotten.
Row_draw_NoLead(self, location, viewport) ==
    LET adjustment == FDiv(viewport, self.raw_width)
        curr_x == location.x
        curr_y == FAdd(location.y, FMul(self.spacing, adjustment))
    IN  RowDrawLoop(self, 1, curr_x, curr_y, adjustment, <<>>)

\* Row::draw with screen_width() = viewport: the calls issued and the final curr_x.
Row_draw(self, location, viewport) ==
    LET adjustment == FDiv(viewport, self.raw_width)
        curr_x == FAdd(location.x, FMul(self.spacing, adjustment))
        curr_y == FAdd(location.y, FMul(self.spacing, adjustment))
    IN  RowDrawLoop(self, 1, curr_x, curr_y, adjustment, <<>>)

-----------------------------------------------------------------------------
(* Inputs *)

\* Texture ids handed to Piece::new.
TexIds == {1, 4, Unregistered}

Half == Rat(1, 2)

RelParents == {vec2(Zero, Zero), vec2(One, Half)}

RelSelfs == {vec2(Zero, Zero), vec2(FNeg(Half), Zero), vec2(Half, FNeg(One))}

\* A child that itself has a child.
Nested == Piece_add_child(Piece_new(2), Piece_new(3), vec2(One, One), vec2(One, One))

\* Pieces handed to add_child.
ChildPieces == {Piece_new(5), Piece_new(Unregistered), Nested}

Locations == {vec2(FromInt(30), FromInt(20))}

Adjustments == {One, Half, FromInt(3)}

\* Values of screen_width().
Viewports == {FromInt(220), FromInt(800)}

\* Values handed to Row::spacing.
Spacings == {Zero, FromInt(10)}

\* A child whose own child has no registered texture.
NestedMissing ==
    Piece_add_child(Piece_new(2), Piece_new(Unregistered), vec2(Zero, Zero), vec2(Zero, Zero))

\* Two children: one wider than the parent and centred on its anchor, one nested.
Composite ==
    Piece_add_child(
        Piece_add_child(Piece_new(4), Piece_new(5), vec2(Half, Half), vec2(FNeg(Half), Zero)),
        NestedMissing, vec2(One, Half), vec2(Zero, Zero))

ChildMissing ==
    Piece_add_child(Piece_new(1), Piece_new(Unregistered), vec2(Zero, Zero), vec2(Zero, Zero))

\* Finished Pieces handed to Row::add or drawn directly.
RowItems == {Piece_new(1), Piece_new(2), Piece_new(3), Composite,
             Piece_new(Unregistered), ChildMissing}

\* The argument record of an operation that takes none of these.
NoPiece == Piece_new(0)

NoArgs == [piece |-> NoPiece, location |-> vec2(Zero, Zero), adjustment |-> One,
           viewport |-> Zero]

-----------------------------------------------------------------------------
(* The program *)

Init ==
    /\ assetsSet = FALSE
    /\ piece \in {Piece_new(t) : t \in TexIds}
    /\ row = Row_new
    /\ op = "new"
    /\ args = NoArgs
    /\ rendered = <<>>
    /\ result = Zero
    /\ fatal = FALSE

\* ASSETS.set(registry): the OnceCell is filled once.
SetAssets ==
    /\ ~fatal /\ ~assetsSet
    /\ assetsSet' = TRUE
    /\ UNCHANGED <<piece, row, op, args, rendered, result, fatal>>

\* piece.add_child(p, rel_parent, rel_self)
CallAddChild ==
    /\ ~fatal /\ Len(piece.children) < MaxChildren
    /\ \E p \in ChildPieces, rel_parent \in RelParents, rel_self \in RelSelfs :
          piece' = Piece_add_child(piece, p, rel_parent, rel_self)
    /\ op' = "add_child" /\ args' = NoArgs /\ rendered' = <<>> /\ result' = Zero
    /\ UNCHANGED <<assetsSet, row, fatal>>

\* self.width()
CallWidth(self) ==
    /\ ~fatal
    /\ \E r \in {Piece_width(self)} : result' = r.val /\ fatal' = ~r.ok
    /\ op' = "width" /\ args' = [NoArgs EXCEPT !.piece = self] /\ rendered' = <<>>
    /\ UNCHANGED <<assetsSet, piece, row>>

\* self.height()
CallHeight(self) ==
    /\ ~fatal
    /\ \E r \in {Piece_height(self)} : result' = r.val /\ fatal' = ~r.ok
    /\ op' = "height" /\ args' = [NoArgs EXCEPT !.piece = self] /\ rendered' = <<>>
    /\ UNCHANGED <<assetsSet, piece, row>>

\* self.draw(location, adjustment)
CallDraw(self) ==
    /\ ~fatal
    /\ \E location \in Locations, adjustment \in Adjustments :
          \E r \in {Piece_draw(self, location, adjustment)} :
              /\ rendered' = r.calls /\ fatal' = ~r.ok
              /\ args' = [piece |-> self, location |-> location,
                          adjustment |-> adjustment, viewport |-> Zero]
    /\ op' = "draw" /\ result' = Zero
    /\ UNCHANGED <<assetsSet, piece, row>>

\* row.spacing(spacing)
CallRowSpacing ==
    /\ ~fatal
    /\ \E spacing \in Spacings :
          \E r \in {Row_spacing(row, spacing)} : row' = r.row /\ fatal' = ~r.ok
    /\ op' = "Row.spacing" /\ args' = NoArgs /\ rendered' = <<>> /\ result' = Zero
    /\ UNCHANGED <<assetsSet, piece>>

\* row.add(item)
CallRowAdd ==
    /\ ~fatal /\ Len(row.items) < MaxItems
    /\ \E item \in RowItems :
          \E r \in {Row_add(row, item)} :
              /\ row' = r.row /\ fatal' = ~r.ok
              /\ args' = [NoArgs EXCEPT !.piece = item]
    /\ op' = "Row.add" /\ rendered' = <<>> /\ result' = Zero
    /\ UNCHANGED <<assetsSet, piece>>

\* row.height()
CallRowHeight ==
    /\ ~fatal
    /\ \E viewport \in Viewports :
          /\ result' = Row_height(row, viewport)
          /\ args' = [NoArgs EXCEPT !.viewport = viewport]
    /\ op' = "Row.height" /\ rendered' = <<>>
    /\ UNCHANGED <<assetsSet, piece, row, fatal>>

\* Mutant: draw stores the viewport width as the Row's raw_width.
CallRowDraw_Rescaling ==
    /\ ~fatal
    /\ \E location \in Locations, viewport \in Viewports :
          \E r \in {Row_draw(row, location, viewport)} :
              /\ rendered' = r.calls /\ result' = r.curr_x /\ fatal' = ~r.ok
              /\ args' = [NoArgs EXCEPT !.location = location, !.viewport = viewport]
              /\ row' = [row EXCEPT !.raw_width = viewport]
    /\ op' = "Row.draw"
    /\ UNCHANGED <<assetsSet, piece>>

\* row.draw(location)
CallRowDraw ==
    /\ ~fatal
    /\ \E location \in Locations, viewport \in Viewports :
          \E r \in {Row_draw(row, location, viewport)} :
              /\ rendered' = r.calls /\ result' = r.curr_x /\ fatal' = ~r.ok
              /\ args' = [NoArgs EXCEPT !.location = location, !.viewport = viewport]
    /\ op' = "Row.draw"
    /\ UNCHANGED <<assetsSet, piece, row>>

\* A Piece built with add_child, measured and drawn on its own.
NextPiece ==
    SetAssets \/ CallAddChild \/ CallWidth(piece) \/ CallHeight(piece) \/ CallDraw(piece)

SpecPiece == Init /\ [][NextPiece]_vars

\* A Row of finished Pieces; the finished Pieces are also measured and drawn directly.
InitRow == Init /\ piece = Piece_new(1)

NextRow ==
    \/ SetAssets
    \/ CallRowSpacing
    \/ CallRowAdd
    \/ CallRowHeight
    \/ CallRowDraw
    \/ \E item \in RowItems : CallWidth(item)
    \/ \E item \in RowItems : CallHeight(item)
    \/ \E item \in RowItems : CallDraw(item)

SpecRow == InitRow /\ [][NextRow]_vars

-----------------------------------------------------------------------------
(* Properties *)

Front(seq) == SubSeq(seq, 1, Len(seq) - 1)

Range(seq) == {seq[i] : i \in DOMAIN seq}

FMaxOf(S) == CHOOSE x \in S : \A y \in S : FLe(y, x)

FMinOf(S) == CHOOSE x \in S : \A y \in S : FLe(x, y)

\* The sum of item.width() over the items, folded from the last item down.
RECURSIVE ItemsWidth(_)
ItemsWidth(items) ==
    IF items = <<>> THEN Zero
    ELSE FAdd(ItemsWidth(Front(items)), Piece_width(items[Len(items)]).val)

ItemHeights(items) == {Piece_height(it).val : it \in Range(items)}

TexturesOf(calls) == [i \in 1..Len(calls) |-> calls[i].texture]

\* The textures Piece::draw is to render: the Piece's own, then its immediate children's.
DrawnTextures(self) ==
    <<self.texture>> \o [i \in 1..Len(self.children) |-> self.children[i].piece.texture]

RECURSIVE RowTextures(_)
RowTextures(items) ==
    IF items = <<>> THEN <<>>
    ELSE RowTextures(Front(items)) \o DrawnTextures(items[Len(items)])

\* C1: after any sequence of add and spacing calls, raw_width equals
\* spacing * (item_count + 1) + the sum of the items' widths; with spacing 10 and
\* items of widths 50, 60 and 70 that is 220, whichever path built the Row.
C1_RawWidth ==
    /\ row.raw_width = FAdd(FMul(row.spacing, FromInt(Len(row.items) + 1)),
                            ItemsWidth(row.items))
    /\ (row.spacing = FromInt(10) /\ row.items = <<Piece_new(1), Piece_new(2), Piece_new(3)>>)
          => row.raw_width = FromInt(220)

C1_Witness ==
    /\ op = "Row.add" /\ ~fatal
    /\ row.spacing = FromInt(10)
    /\ row.items = <<Piece_new(1), Piece_new(2), Piece_new(3)>>
    /\ row.raw_width = FromInt(220)

\* C2: after any sequence of add and spacing calls, raw_height equals
\* spacing * 2 + the largest item height (0 for an empty Row).
C2_RawHeight ==
    row.raw_height = FAdd(FMul(row.spacing, Two), FMaxOf({Zero} \cup ItemHeights(row.items)))

\* The unscaled extent Row::draw walks: spacing, then width + spacing per item.
RECURSIVE Walked(_, _, _)
Walked(self, i, acc) ==
    IF i > Len(self.items) THEN acc
    ELSE Walked(self, i + 1, FAdd(acc, FAdd(Piece_width(self.items[i]).val, self.spacing)))

\* C3: Row::draw on a non-empty Row ends with its cursor at location.x + the
\* viewport width; the unscaled extent it walks equals raw_width.
C3_ScaleToFit ==
    (op = "Row.draw" /\ ~fatal /\ Len(row.items) > 0) =>
        /\ result = FAdd(args.location.x, args.viewport)
        /\ Walked(row, 1, row.spacing) = row.raw_width

C3_Witness ==
    /\ op = "Row.draw" /\ ~fatal
    /\ Len(row.items) >= 2 /\ Composite \in Range(row.items)
    /\ row.spacing = FromInt(10)
    /\ result = FAdd(args.location.x, args.viewport)

\* The left edges and right edges of the immediate children, measured by rel_self alone.
ChildLefts(self) ==
    {FMul(Piece_texture(c.piece).width, c.rel_self.x) : c \in Range(self.children)}

ChildRights(self) ==
    {FAdd(FMul(Piece_texture(c.piece).width, c.rel_self.x), Piece_texture(c.piece).width) :
        c \in Range(self.children)}

ChildTops(self) ==
    {FMul(Piece_texture(c.piece).height, c.rel_self.y) : c \in Range(self.children)}

ChildBottoms(self) ==
    {FAdd(FMul(Piece_texture(c.piece).height, c.rel_self.y), Piece_texture(c.piece).height) :
        c \in Range(self.children)}

\* The Piece with its grandchildren removed and every rel_parent set to (0, 0).
Shallow(self) ==
    [texture |-> self.texture,
     children |-> [i \in 1..Len(self.children) |->
                      [piece |-> Piece_new(self.children[i].piece.texture),
                       rel_parent |-> vec2(Zero, Zero),
                       rel_self |-> self.children[i].rel_self]]]

\* C4: width() is right - left with left the least of 0 and the children's
\* left edges and right the greatest of the own texture width and the
\* children's right edges (height() likewise); rel_parent and grandchildren
\* have no influence, and a Piece without children measures its texture.
C4_BoundingFormula ==
    LET self == args.piece
    IN  /\ (op = "width" /\ ~fatal) =>
              /\ result = FSub(FMaxOf({Piece_texture(self).width} \cup ChildRights(self)),
                               FMinOf({Zero} \cup ChildLefts(self)))
              /\ result = Piece_width(Shallow(self)).val
              /\ (self.children = <<>> => result = Piece_texture(self).width)
        /\ (op = "height" /\ ~fatal) =>
              /\ result = FSub(FMaxOf({Piece_texture(self).height} \cup ChildBottoms(self)),
                               FMinOf({Zero} \cup ChildTops(self)))
              /\ result = Piece_height(Shallow(self)).val
              /\ (self.children = <<>> => result = Piece_texture(self).height)

\* Parent of width 100 with one child of width 200 at rel_self.x = -0.5: width() is 200.
C4_Witness ==
    /\ op = "width" /\ ~fatal
    /\ args.piece.texture = 4 /\ Len(args.piece.children) = 1
    /\ args.piece.children[1].piece = Piece_new(5)
    /\ args.piece.children[1].rel_self.x = FNeg(Half)
    /\ args.piece.children[1].rel_parent = vec2(One, Half)
    /\ result = FromInt(200)

\* C5: Piece::draw on a Piece with k immediate children issues k + 1 render
\* calls: the parent, then the children in add_child order, and no grandchild;
\* Row::draw issues these sequences item after item in insertion order.
C5_PaintOrder ==
    /\ (op = "draw" /\ ~fatal) =>
          /\ Len(rendered) = Len(args.piece.children) + 1
          /\ TexturesOf(rendered) = DrawnTextures(args.piece)
    /\ (op = "Row.draw" /\ ~fatal) => TexturesOf(rendered) = RowTextures(row.items)

C5_Witness ==
    /\ op = "Row.draw" /\ ~fatal
    /\ Len(row.items) >= 2 /\ row.items[1] = Composite /\ row.items[2] = Piece_new(2)
    /\ SubSeq(TexturesOf(rendered), 1, 4) = <<4, 5, 2, 2>>

\* C6: height() and draw() on a Row whose raw_width is zero yield a defined
\* (finite) value, not the outcome of a division by zero.
C6_DegenerateRowDefined ==
    (op \in {"Row.height", "Row.draw"} /\ row.raw_width = Zero) => IsFinite(result)

\* The texture ids that width(), height() and draw() resolve for a Piece.
Touched(self) == {self.texture} \cup {c.piece.texture : c \in Range(self.children)}

TouchesMissing(self) == ~assetsSet \/ \E t \in Touched(self) : t \notin DOMAIN Registry

\* What Piece::draw has rendered when it panics: nothing if its own texture is
\* missing, else the parent and the children before the first missing one.
PrefixBeforeMissing(self) ==
    IF ~Resolves(self) THEN <<>>
    ELSE LET k == CHOOSE i \in 1..Len(self.children) :
                     /\ ~Resolves(self.children[i].piece)
                     /\ \A j \in 1..(i - 1) : Resolves(self.children[j].piece)
         IN  SubSeq(DrawnTextures(self), 1, k)

\* C7 as stated: an operation that ends in the fatal state has issued no
\* render call and changed no Row field.
C7_AllOrNothing ==
    [][(~fatal /\ fatal') => (rendered' = <<>> /\ row' = row)]_vars

\* C7 amended: an operation that resolves a missing texture id ends in the
\* fatal state and changes no Piece and no Row field; only Piece::draw has
\* issued render calls by then, those of the parent and of the children before
\* the first one whose texture is missing.
C7_FatalLeavesState ==
    [][(~fatal /\ assetsSet' = assetsSet) =>
          /\ (op' \in {"width", "height", "draw", "Row.add"}
                 => (fatal' <=> TouchesMissing(args'.piece)))
          /\ fatal' =>
                /\ row' = row /\ piece' = piece
                /\ (op' # "draw" => rendered' = <<>>)
                /\ (op' = "draw" => TexturesOf(rendered') = PrefixBeforeMissing(args'.piece))
      ]_vars

C7_Witness ==
    /\ fatal /\ op = "Row.add" /\ args.piece = ChildMissing
    /\ Len(row.items) >= 1 /\ rendered = <<>>

ReadOps == {"width", "height", "draw", "Row.height", "Row.draw"}

ExtentX(calls) ==
    FSub(FMaxOf({FAdd(c.x, c.w) : c \in Range(calls)}), FMinOf({c.x : c \in Range(calls)}))

ExtentY(calls) ==
    FSub(FMaxOf({FAdd(c.y, c.h) : c \in Range(calls)}), FMinOf({c.y : c \in Range(calls)}))

\* C9: the rectangles rendered by Piece::draw(location, 1) span at most
\* width() horizontally and at most height() vertically.
C9_TrueBoundingBox ==
    (op = "draw" /\ ~fatal /\ args.adjustment = One) =>
        /\ FLe(ExtentX(rendered), Piece_width(args.piece).val)
        /\ FLe(ExtentY(rendered), Piece_height(args.piece).val)

====
